---- MODULE Spec2Model ----
(***************************************************************************)
(* Model of Councildashboard_.py: the two loaders that read the council    *)
(* JSON exports (load_and_preprocess_decisions, load_and_preprocess_people)*)
(* and the Decisions and People category views that filter their tables,  *)
(* the st.cache_data entries of the loaders, and the Budgets view over the *)
(* simulated table of load_and_preprocess_budgets.                         *)
(*                                                                         *)
(* A pandas DataFrame is a sequence of rows; every row carries the label   *)
(* of its index (idx); df[mask] is SelectSeq, which keeps the rows whose    *)
(* mask is true, in their order and with their labels.  A cell of an       *)
(* object column is a record [k, v]: k = "str" for a Python str v,         *)
(* k = "none" for JSON null (None) and k = "nan" for a key that the record *)
(* does not have (pandas fills NaN).  Strings are TLA+ strings, handled    *)
(* with Len, SubSeq and \o.                                                *)
(***************************************************************************)
EXTENDS Integers, Sequences, FiniteSets, TLC

VARIABLES
    decisionsFile,    \* the agenda item export on disk
    peopleFile,       \* the person export on disk
    orgFile,          \* the organization export on disk
    membershipFile,   \* the membership export on disk
    cacheDecisions,   \* st.cache_data entry of load_and_preprocess_decisions
    cachePeople,      \* st.cache_data entry of load_and_preprocess_people
    cacheBudgets,     \* st.cache_data entry of load_and_preprocess_budgets
    view,             \* what the last run of the script produced
    calls             \* history of the two loaders' bodies: has a call
                      \* returned, and has the body run again after that

vars == <<decisionsFile, peopleFile, orgFile, membershipFile,
          cacheDecisions, cachePeople, cacheBudgets, view, calls>>

\* ---------------------------------------------------------------- bounds

\* Most records in the "data" list of the agenda item export.
MaxItems == 2
\* Most records in the "data" lists of the person, organization and
\* membership exports.
MaxPersons == 2
MaxOrgs == 2
MaxMemberships == 2

\* ------------------------------------------------------------ cell values

Str(s) == [k |-> "str", v |-> s]
None == [k |-> "none", v |-> ""]
NaN == [k |-> "nan", v |-> ""]

\* pandas isna(): None and NaN are both missing values.
isna(c) == c.k \in {"none", "nan"}

\* Series.fillna(value): missing cells become value, the others are kept.
fillna(c, value) == IF isna(c) THEN Str(value) ELSE c

\* Python str.isspace() for one character (the whitespace used in the inputs).
IsSpace(ch) == ch \in {" ", "\t", "\n"}

RECURSIVE lstrip(_)
lstrip(s) ==
    IF Len(s) > 0 /\ IsSpace(SubSeq(s, 1, 1))
    THEN lstrip(SubSeq(s, 2, Len(s)))
    ELSE s

RECURSIVE rstrip(_)
rstrip(s) ==
    IF Len(s) > 0 /\ IsSpace(SubSeq(s, Len(s), Len(s)))
    THEN rstrip(SubSeq(s, 1, Len(s) - 1))
    ELSE s

\* Series.str.strip(): leading and trailing whitespace removed.
strip(s) == rstrip(lstrip(s))

\* ------------------------------------------------------------- timestamps

\* An ISO timestamp of the export: local wall-clock time in hours since the
\* start of day 0, and its UTC offset in hours when it states one.
Timestamp(local, off, aware) ==
    [k |-> "ts", local |-> local, off |-> off, aware |-> aware]
NoTimestamp == [k |-> "nan", local |-> 0, off |-> 0, aware |-> FALSE]

\* .dt.tz_convert(None): the instant in UTC, without a time zone.
tz_convert_none(ts) == ts.local - ts.off

\* .dt.date / Timestamp.date(): the calendar day of a naive instant.
date(instant) == instant \div 24

\* ------------------------------------------------------------------ files

FileKinds == {"ok", "missing", "invalid_json", "no_data_key"}

File(kind, data) == [kind |-> kind, data |-> data]

CreatedValues ==
    { Timestamp(10, 0, TRUE),     \* day 0, UTC
      Timestamp(30, 0, TRUE),     \* day 1, UTC
      Timestamp(25, 2, TRUE),     \* 01:00+02:00 of day 1 = 23:00 UTC of day 0
      Timestamp(50, 2, TRUE),     \* 02:00+02:00 of day 2 = 00:00 UTC of day 2
      Timestamp(10, 0, FALSE) }   \* no offset stated

ResultValues ==
    { None, NaN, Str(""), Str(" "), Str("Beschlossen"), Str(" Abgelehnt "),
      Str("Kenntnis genommen ") }

AgendaItems ==
    [created : CreatedValues \cup {NoTimestamp}, result : ResultValues]

SeqsUpTo(S, n) == UNION { [1..k -> S] : k \in 0..n }

\* A key is missing from every record or from none: a "created" column with
\* some NaT cells is not modelled.
CreatedAllOrNone(data) ==
    \/ \A i \in 1..Len(data) : data[i].created.k = "ts"
    \/ \A i \in 1..Len(data) : data[i].created.k = "nan"

DecisionsFiles ==
    { File(kind, <<>>) : kind \in FileKinds \ {"ok"} }
    \cup { File("ok", d) : d \in { x \in SeqsUpTo(AgendaItems, MaxItems) :
                                     CreatedAllOrNone(x) } }

Person(id, name) == [id |-> id, name |-> name]
Organization(id, name) == [id |-> id, name |-> name]
Membership(person, organization, role) ==
    [person |-> person, organization |-> organization, role |-> role,
     startDate |-> Str("2019-07-01")]

\* Two persons share the id p1; p2 has a null name.
PersonRecords ==
    { Person("p1", Str("Alice")), Person("p1", Str("Alicia")),
      Person("p2", None) }

\* Two organizations share the id o1.
OrganizationRecords ==
    { Organization("o1", Str("Fraktion der Gruenen")),
      Organization("o1", Str("Fraktionsgemeinschaft Linke")),
      Organization("o2", Str("Alte Fraktion der Mitte")) }

\* p9 and o9 are ids that no person and no organization has; one record
\* has no "role" key.
MembershipRecords ==
    { Membership("p1", "o1", Str("Stadtrat")),
      Membership("p9", "o2", Str("Stadtrat")),
      Membership("p2", "o9", NaN) }

FilesOf(records, n) ==
    { File(kind, <<>>) : kind \in FileKinds \ {"ok"} }
    \cup { File("ok", d) : d \in SeqsUpTo(records, n) }

\* ------------------------------------------------------------- DataFrames

\* pd.DataFrame(records): one row per record, labelled 0, 1, 2, ...
DataFrame(data) == [i \in 1..Len(data) |-> [idx |-> i - 1, rec |-> data[i]]]

\* pd.DataFrame(): no rows, no columns.
EmptyDataFrame == <<>>

\* DataFrame.empty
empty(df) == Len(df) = 0

\* Series.isin(values)
isin(value, values) == value \in values

\* Series.unique() as a set (sorted() only fixes the order of display).
unique(series) == { series[i] : i \in 1..Len(series) }

\* A column exists when at least one record has the key.
HasCreated(data) == \E i \in 1..Len(data) : data[i].created.k = "ts"
HasResult(data) == \E i \in 1..Len(data) : data[i].result.k # "nan"

\* pd.to_datetime(...).dt needs one datetime dtype: every value with an
\* offset and all offsets equal, or no value with an offset.
MixedOffsets(data) ==
    \E i, j \in 1..Len(data) :
        \/ data[i].created.aware # data[j].created.aware
        \/ data[i].created.aware /\ data[i].created.off # data[j].created.off

TzNaive(data) == \E i \in 1..Len(data) : ~data[i].created.aware

\* --------------------------------------------- load_and_preprocess_decisions

EXCLUDED_STATUSES == {"No result", "Kenntnis genommen"}

\* df['status'] = df['result'].fillna('No result').str.strip()
status_of(result) == strip(fillna(result, "No result").v)

\* A mask that forgets the second excluded status.
actionable_mask_one_status(row) == row.status # "No result"

\* ~df['status'].isin(['No result', 'Kenntnis genommen'])
actionable_mask(row) == ~isin(row.status, EXCLUDED_STATUSES)

Raised(exc) ==
    [exc |-> exc, notice |-> FALSE, df |-> EmptyDataFrame,
     df_filtered |-> EmptyDataFrame]

Returned(df, df_filtered, notice) ==
    [exc |-> "none", notice |-> notice, df |-> df, df_filtered |-> df_filtered]

\* The try block of load_and_preprocess_decisions.
decisions_try(file) ==
    IF file.kind = "missing" THEN Raised("FileNotFoundError")
    ELSE IF file.kind = "invalid_json" THEN Raised("JSONDecodeError")
    ELSE IF file.kind = "no_data_key" THEN Raised("KeyError")
    ELSE IF ~HasCreated(file.data) THEN Raised("KeyError")
    ELSE IF MixedOffsets(file.data) THEN Raised("ValueError")
    ELSE IF TzNaive(file.data) THEN Raised("TypeError")
    ELSE IF ~HasResult(file.data) THEN Raised("KeyError")
    ELSE
        LET raw == DataFrame(file.data)
            df == [i \in 1..Len(raw) |->
                     [idx |-> raw[i].idx,
                      created |-> tz_convert_none(raw[i].rec.created),
                      result |-> raw[i].rec.result,
                      status |-> status_of(raw[i].rec.result)]]
            df_filtered == SelectSeq(df, actionable_mask)
        IN Returned(df, df_filtered, FALSE)

\* The function with its handler: only FileNotFoundError is caught.
load_and_preprocess_decisions(file) ==
    LET r == decisions_try(file)
    IN IF r.exc = "FileNotFoundError"
       THEN Returned(EmptyDataFrame, EmptyDataFrame, TRUE)
       ELSE r

\* ------------------------------------------------------------ st.cache_data

NoEntry == [hit |-> FALSE, value |-> Raised("none")]
Entry(value) == [hit |-> TRUE, value |-> value]

\* A cached function: a stored return value (with the st.error it showed) is
\* replayed; otherwise the function runs, and a return value is stored while
\* an exception is not.
cached_call(cache, result) == IF cache.hit THEN cache.value ELSE result
\* A cache that does not keep the empty result of a missing file.
cache_after_skips_not_found(cache, result) ==
    IF cache.hit \/ result.exc # "none" \/ result.notice
    THEN cache ELSE Entry(result)

cache_after(cache, result) ==
    IF cache.hit \/ result.exc # "none" THEN cache ELSE Entry(result)

\* The body of a cached function runs, and reads its files, exactly when
\* there is no entry.  The history records a body that returned, and a body
\* that ran after an earlier one had returned.
NoCall == [returned |-> FALSE, reread |-> FALSE]
call_history(history, cache, result) ==
    [returned |-> history.returned \/ (~cache.hit /\ result.exc = "none"),
     reread |-> history.reread \/ (~cache.hit /\ history.returned)]

\* ----------------------------------------------------------- Decisions view

NoView ==
    [category |-> "none", exc |-> "none", notice |-> FALSE,
     table |-> <<>>, actionable |-> <<>>, date_range |-> <<>>,
     filter_input |-> <<>>, options |-> {}, selected |-> {},
     filtered_df |-> <<>>, rendered |-> {}]

Min(S) == CHOOSE x \in S : \A y \in S : x <= y
Max(S) == CHOOSE x \in S : \A y \in S : x >= y

\* What st.date_input can return for a range picker bounded by
\* [min_date, max_date]: nothing, a start alone, or a start and an end.
DateRanges(min_date, max_date) ==
    { <<>> }
    \cup { <<a>> : a \in min_date..max_date }
    \cup { r \in (min_date..max_date) \X (min_date..max_date) : r[1] <= r[2] }

\* A date filter whose upper end is exclusive.
date_filter_exclusive_end(df_decisions, date_range) ==
    IF Len(date_range) = 2
    THEN LET in_range(row) == /\ date(row.created) >= date_range[1]
                              /\ date(row.created) < date_range[2]
         IN SelectSeq(df_decisions, in_range)
    ELSE df_decisions

\* Lines 203-209.
date_filter(df_decisions, date_range) ==
    IF Len(date_range) = 2
    THEN LET in_range(row) == /\ date(row.created) >= date_range[1]
                              /\ date(row.created) <= date_range[2]
         IN SelectSeq(df_decisions, in_range)
    ELSE df_decisions

\* A mask that takes an empty selection for "no filter".
selection_mask_empty_is_all(value, selected) ==
    selected = {} \/ isin(value, selected)

\* A mask that loses one of the selected values.
selection_mask_loses_one(value, selected) ==
    /\ selected # {}
    /\ isin(value, selected \ {CHOOSE x \in selected : TRUE})

\* The mask of line 214 and of line 281: column.isin(selected).
selection_mask(value, selected) == isin(value, selected)

\* Line 214: filtered_df[filtered_df['status'].isin(selected_statuses)]
status_filter(df, selected_statuses) ==
    LET chosen(row) == selection_mask(row.status, selected_statuses)
    IN SelectSeq(df, chosen)

\* Line 281: df_members[df_members['Organization'].isin(selected_orgs)]
organization_filter(df, selected_orgs) ==
    LET chosen(row) == selection_mask(row.Organization, selected_orgs)
    IN SelectSeq(df, chosen)

\* filtered_df['status'] and df_members['Organization']
status_column(df) == [i \in 1..Len(df) |-> df[i].status]
organization_column(df) == [i \in 1..Len(df) |-> df[i].Organization]

RunDecisions ==
    \E loaded \in { cached_call(cacheDecisions,
                                load_and_preprocess_decisions(decisionsFile)) } :
        /\ cacheDecisions' = cache_after(cacheDecisions,
                                load_and_preprocess_decisions(decisionsFile))
        /\ calls' = [calls EXCEPT !.decisions =
                        call_history(@, cacheDecisions,
                            load_and_preprocess_decisions(decisionsFile))]
        /\ UNCHANGED <<decisionsFile, peopleFile, orgFile, membershipFile,
                       cachePeople, cacheBudgets>>
        /\ IF loaded.exc # "none"
           THEN view' = [NoView EXCEPT !.category = "Decisions",
                                       !.exc = loaded.exc]
           ELSE IF empty(loaded.df)
           THEN view' = [NoView EXCEPT !.category = "Decisions",
                                       !.notice = loaded.notice,
                                       !.rendered = {"subheader"}]
           ELSE
             LET days == { date(loaded.df[i].created) : i \in 1..Len(loaded.df) }
             IN \E date_range \in DateRanges(Min(days), Max(days)) :
                  LET by_date == date_filter(loaded.df_filtered, date_range)
                      status_options == unique(status_column(by_date))
                  IN \E selected_statuses \in SUBSET status_options :
                       LET filtered_df ==
                             status_filter(by_date, selected_statuses)
                       IN view' =
                            [category |-> "Decisions", exc |-> "none",
                             notice |-> loaded.notice,
                             table |-> loaded.df,
                             actionable |-> loaded.df_filtered,
                             date_range |-> date_range,
                             filter_input |-> by_date,
                             options |-> status_options,
                             selected |-> selected_statuses,
                             filtered_df |-> filtered_df,
                             rendered |->
                               {"subheader", "date_input", "multiselect",
                                "metrics", "line_chart", "bar_chart", "table"}
                               \cup (IF empty(filtered_df) THEN {}
                                     ELSE {"insight"})]

\* ------------------------------------------------ load_and_preprocess_people

\* str.replace(old, ''): every non-overlapping occurrence of old, found from
\* the left, is removed.
RECURSIVE str_replace(_, _)
str_replace(s, old) ==
    IF Len(s) < Len(old) THEN s
    ELSE IF SubSeq(s, 1, Len(old)) = old
    THEN str_replace(SubSeq(s, Len(old) + 1, Len(s)), old)
    ELSE SubSeq(s, 1, 1) \o str_replace(SubSeq(s, 2, Len(s)), old)

\* Line 103.
clean_organization(name) ==
    str_replace(str_replace(name, "Fraktion der "), "Fraktionsgemeinschaft ")

\* how='inner': a left row without a match yields no row.
merge_names_inner(key, right) ==
    LET hits == SelectSeq(right, LAMBDA r : r.id = key)
    IN [i \in 1..Len(hits) |-> hits[i].name]

\* The rows that how='left' yields for one left row: one per right record
\* with the key, in the right table's order, or one with a missing name.
merge_names(key, right) ==
    LET hits == SelectSeq(right, LAMBDA r : r.id = key)
    IN IF Len(hits) = 0 THEN <<NaN>>
       ELSE [i \in 1..Len(hits) |-> hits[i].name]

RECURSIVE Flatten(_)
Flatten(ss) == IF Len(ss) = 0 THEN <<>> ELSE Head(ss) \o Flatten(Tail(ss))

\* Lines 80-93: memberships left-merged with persons, the result left-merged
\* with organizations.  Field m is the position of the membership record a
\* row comes from; it is bookkeeping of the model, not a column.
merge_members(memberships, people, orgs) ==
    LET one(m) ==
          LET rec == memberships[m]
              pn == merge_names(rec.person, people)
          IN [i \in 1..Len(pn) |-> [m |-> m, rec |-> rec, name_person |-> pn[i]]]
        first == Flatten([m \in 1..Len(memberships) |-> one(m)])
        two(r) ==
          LET on == merge_names(first[r].rec.organization, orgs)
          IN [i \in 1..Len(on) |->
                [m |-> first[r].m, rec |-> first[r].rec,
                 name_person |-> first[r].name_person, name_org |-> on[i]]]
    IN Flatten([r \in 1..Len(first) |-> two(r)])

HasRole(data) == \E i \in 1..Len(data) : data[i].role.k # "nan"

PeopleRaised(exc) == [exc |-> exc, notice |-> FALSE, df |-> EmptyDataFrame]
PeopleReturned(df, notice) == [exc |-> "none", notice |-> notice, df |-> df]

\* with open(...) as f: json.load(f)['data']
read_data(file) ==
    IF file.kind = "missing" THEN "FileNotFoundError"
    ELSE IF file.kind = "invalid_json" THEN "JSONDecodeError"
    ELSE IF file.kind = "no_data_key" THEN "KeyError"
    ELSE "none"

\* The try block of load_and_preprocess_people.
people_try(people, orgs, memberships) ==
    IF read_data(people) # "none" THEN PeopleRaised(read_data(people))
    ELSE IF read_data(orgs) # "none" THEN PeopleRaised(read_data(orgs))
    ELSE IF read_data(memberships) # "none"
    THEN PeopleRaised(read_data(memberships))
    ELSE IF \/ Len(people.data) = 0
            \/ Len(memberships.data) = 0
            \/ Len(orgs.data) = 0
            \/ ~HasRole(memberships.data)
    THEN PeopleRaised("KeyError")
    ELSE
        LET df_members == merge_members(memberships.data, people.data, orgs.data)
            df_members_final ==
              [i \in 1..Len(df_members) |->
                 [idx |-> i - 1,
                  m |-> df_members[i].m,
                  Name |-> fillna(df_members[i].name_person, "Unknown").v,
                  Organization |->
                    clean_organization(
                      fillna(df_members[i].name_org, "Unknown").v),
                  Role |-> fillna(df_members[i].rec.role, "Unknown").v,
                  StartDate |-> fillna(df_members[i].rec.startDate, "Unknown").v]]
        IN PeopleReturned(df_members_final, FALSE)

\* The function with its handler: only FileNotFoundError is caught.
load_and_preprocess_people(people, orgs, memberships) ==
    LET r == people_try(people, orgs, memberships)
    IN IF r.exc = "FileNotFoundError"
       THEN PeopleReturned(EmptyDataFrame, TRUE)
       ELSE r

NoPeopleEntry == [hit |-> FALSE, value |-> PeopleRaised("none")]

\* -------------------------------------------------------------- People view

RunPeople ==
    \E loaded \in { cached_call(cachePeople,
                      load_and_preprocess_people(peopleFile, orgFile,
                                                 membershipFile)) } :
        /\ cachePeople' = cache_after(cachePeople,
                            load_and_preprocess_people(peopleFile, orgFile,
                                                       membershipFile))
        /\ calls' = [calls EXCEPT !.people =
                        call_history(@, cachePeople,
                            load_and_preprocess_people(peopleFile, orgFile,
                                                       membershipFile))]
        /\ UNCHANGED <<decisionsFile, peopleFile, orgFile, membershipFile,
                       cacheDecisions, cacheBudgets>>
        /\ IF loaded.exc # "none"
           THEN view' = [NoView EXCEPT !.category = "People",
                                       !.exc = loaded.exc]
           ELSE IF empty(loaded.df)
           THEN view' = [NoView EXCEPT !.category = "People",
                                       !.notice = loaded.notice,
                                       !.rendered = {"subheader"}]
           ELSE
             LET org_options == unique(organization_column(loaded.df))
             IN \E selected_orgs \in SUBSET org_options :
                  view' =
                    [category |-> "People", exc |-> "none",
                     notice |-> loaded.notice,
                     table |-> loaded.df,
                     actionable |-> <<>>,
                     date_range |-> <<>>,
                     filter_input |-> loaded.df,
                     options |-> org_options,
                     selected |-> selected_orgs,
                     filtered_df |->
                       organization_filter(loaded.df, selected_orgs),
                     rendered |->
                       {"subheader", "multiselect", "metrics", "bar_chart",
                        "table"}]

\* ----------------------------------------------- load_and_preprocess_budgets

DEPARTMENTS ==
    <<"Administration", "Public Services", "Culture & Education",
      "Infrastructure", "Community Projects">>

\* Lines 118-127: twenty rows, the years 2021..2024 five times each
\* (np.repeat) against the five departments four times over (list * 4).
\* np.random.randint draws the two amounts of every row, planned_budget in
\* [100, 500) and expenditure in [80, 450); the model takes one of two draws.
\* Amounts are in units of 1,000,000.  The efficiency column of line 128 is
\* left out: the view does not read it.
BudgetDraws == {1, 2}

load_and_preprocess_budgets(draw) ==
    [i \in 1..20 |->
       [idx |-> i - 1,
        financial_year |-> 2021 + ((i - 1) \div 5),
        department |-> DEPARTMENTS[((i - 1) % 5) + 1],
        planned_budget |-> 100 + ((i * 37 * draw) % 400),
        expenditure |-> 80 + ((i * 53 * draw) % 370)]]

NoBudgetsEntry == [hit |-> FALSE, value |-> <<>>]

\* -------------------------------------------------------------- Budgets view

\* st.sidebar.slider with a pair as value: a range inside [lo, hi].
SliderRanges(lo, hi) == { r \in (lo..hi) \X (lo..hi) : r[1] <= r[2] }

\* Lines 323-326.
year_filter(df_budgets, selected_years) ==
    LET in_range(row) == /\ row.financial_year >= selected_years[1]
                         /\ row.financial_year <= selected_years[2]
    IN SelectSeq(df_budgets, in_range)

\* Line 331.
department_filter(df, selected_departments) ==
    LET chosen(row) == selection_mask(row.department, selected_departments)
    IN SelectSeq(df, chosen)

department_column(df) == [i \in 1..Len(df) |-> df[i].department]

RECURSIVE sum(_)
sum(series) == IF Len(series) = 0 THEN 0 ELSE Head(series) + sum(Tail(series))

\* Line 357: filtered_df.groupby('department')['expenditure'].sum(), one row
\* per department that has rows.
dept_expenditure_of(filtered_df) ==
    LET present(d) == \E i \in 1..Len(filtered_df) : filtered_df[i].department = d
        of(d) == LET rows == SelectSeq(filtered_df, LAMBDA r : r.department = d)
                 IN sum([i \in 1..Len(rows) |-> rows[i].expenditure])
    IN [d \in { x \in unique(DEPARTMENTS) : present(x) } |-> of(d)]

\* Line 372: Series.idxmax() raises ValueError on a Series without rows.
idxmax_raises(dept_expenditure) == DOMAIN dept_expenditure = {}

RunBudgets ==
    \E draw \in BudgetDraws :
      LET df_budgets == IF cacheBudgets.hit THEN cacheBudgets.value
                        ELSE load_and_preprocess_budgets(draw)
          years == { df_budgets[i].financial_year : i \in 1..Len(df_budgets) }
      IN /\ cacheBudgets' = [hit |-> TRUE, value |-> df_budgets]
         /\ UNCHANGED <<decisionsFile, peopleFile, orgFile, membershipFile,
                        cacheDecisions, cachePeople, calls>>
         /\ \E selected_years \in SliderRanges(Min(years), Max(years)) :
              LET by_year == year_filter(df_budgets, selected_years)
                  departments == unique(department_column(by_year))
              IN \E selected_departments \in SUBSET departments :
                   LET filtered_df ==
                         department_filter(by_year, selected_departments)
                       dept_expenditure == dept_expenditure_of(filtered_df)
                       shown == {"warning", "subheader", "slider",
                                 "multiselect", "metrics", "line_chart",
                                 "pie_chart", "efficiency"}
                   IN view' =
                        [category |-> "Budgets",
                         exc |-> IF idxmax_raises(dept_expenditure)
                                 THEN "ValueError" ELSE "none",
                         notice |-> FALSE,
                         table |-> df_budgets,
                         actionable |-> <<>>,
                         date_range |-> selected_years,
                         filter_input |-> by_year,
                         options |-> departments,
                         selected |-> selected_departments,
                         filtered_df |-> filtered_df,
                         rendered |->
                           IF idxmax_raises(dept_expenditure) THEN shown
                           ELSE shown \cup {"insight"}]

\* ------------------------------------------------- the files between runs

\* The exports are written by another system: between two runs of the script
\* a file can be removed, damaged or replaced by another snapshot.
DecisionsSnapshots ==
    { File("missing", <<>>), File("invalid_json", <<>>),
      File("ok", <<[created |-> Timestamp(10, 0, TRUE),
                    result |-> Str("Beschlossen")]>>),
      File("ok", <<[created |-> Timestamp(10, 0, TRUE),
                    result |-> Str("Beschlossen")],
                   [created |-> Timestamp(30, 0, TRUE),
                    result |-> Str(" Abgelehnt ")]>>) }

PersonSnapshots ==
    { File("missing", <<>>),
      File("ok", <<Person("p1", Str("Alice"))>>),
      File("ok", <<Person("p1", Str("Alicia"))>>) }

OrganizationSnapshots ==
    { File("missing", <<>>), File("invalid_json", <<>>),
      File("ok", <<Organization("o1", Str("Fraktion der Gruenen"))>>) }

MembershipSnapshots ==
    { File("missing", <<>>),
      File("ok", <<Membership("p1", "o1", Str("Stadtrat"))>>),
      File("ok", <<Membership("p9", "o1", Str("Stadtrat"))>>) }

ChangeDecisionsFile ==
    /\ decisionsFile' \in DecisionsSnapshots \ {decisionsFile}
    /\ UNCHANGED <<peopleFile, orgFile, membershipFile, cacheDecisions,
                   cachePeople, cacheBudgets, view, calls>>

ChangePeopleFile ==
    /\ peopleFile' \in PersonSnapshots \ {peopleFile}
    /\ UNCHANGED <<decisionsFile, orgFile, membershipFile, cacheDecisions,
                   cachePeople, cacheBudgets, view, calls>>

ChangeOrgFile ==
    /\ orgFile' \in OrganizationSnapshots \ {orgFile}
    /\ UNCHANGED <<decisionsFile, peopleFile, membershipFile, cacheDecisions,
                   cachePeople, cacheBudgets, view, calls>>

ChangeMembershipFile ==
    /\ membershipFile' \in MembershipSnapshots \ {membershipFile}
    /\ UNCHANGED <<decisionsFile, peopleFile, orgFile, cacheDecisions,
                   cachePeople, cacheBudgets, view, calls>>

\* ---------------------------------------------------------- specifications

NoFile == File("missing", <<>>)

InitDecisions ==
    /\ decisionsFile \in DecisionsFiles
    /\ peopleFile = NoFile
    /\ orgFile = NoFile
    /\ membershipFile = NoFile
    /\ cacheDecisions = NoEntry
    /\ cachePeople = NoPeopleEntry
    /\ cacheBudgets = NoBudgetsEntry
    /\ view = NoView
    /\ calls = [decisions |-> NoCall, people |-> NoCall]

InitPeople ==
    /\ decisionsFile = NoFile
    /\ peopleFile \in FilesOf(PersonRecords, MaxPersons)
    /\ orgFile \in FilesOf(OrganizationRecords, MaxOrgs)
    /\ membershipFile \in FilesOf(MembershipRecords, MaxMemberships)
    /\ cacheDecisions = NoEntry
    /\ cachePeople = NoPeopleEntry
    /\ cacheBudgets = NoBudgetsEntry
    /\ view = NoView
    /\ calls = [decisions |-> NoCall, people |-> NoCall]

Next ==
    \/ RunDecisions
    \/ RunPeople

\* The dashboard started on either set of exports.
Init == InitDecisions \/ InitPeople

Spec == Init /\ [][Next]_vars

InitCache ==
    /\ decisionsFile \in DecisionsSnapshots
    /\ peopleFile \in PersonSnapshots
    /\ orgFile \in OrganizationSnapshots
    /\ membershipFile \in MembershipSnapshots
    /\ cacheDecisions = NoEntry
    /\ cachePeople = NoPeopleEntry
    /\ cacheBudgets = NoBudgetsEntry
    /\ view = NoView
    /\ calls = [decisions |-> NoCall, people |-> NoCall]

NextCache ==
    \/ RunDecisions
    \/ RunPeople
    \/ ChangeDecisionsFile
    \/ ChangePeopleFile
    \/ ChangeOrgFile
    \/ ChangeMembershipFile

\* One process of the dashboard while the exports change on disk.
SpecCache == InitCache /\ [][NextCache]_vars

InitViews ==
    /\ decisionsFile \in { f \in DecisionsSnapshots : Len(f.data) = 2 }
    /\ peopleFile = File("ok", <<Person("p1", Str("Alice"))>>)
    /\ orgFile = File("ok", <<Organization("o1", Str("Fraktion der Gruenen"))>>)
    /\ membershipFile = File("ok", <<Membership("p1", "o1", Str("Stadtrat"))>>)
    /\ cacheDecisions = NoEntry
    /\ cachePeople = NoPeopleEntry
    /\ cacheBudgets = NoBudgetsEntry
    /\ view = NoView
    /\ calls = [decisions |-> NoCall, people |-> NoCall]

NextViews ==
    \/ RunDecisions
    \/ RunPeople
    \/ RunBudgets

\* The Decisions, People and Budgets views of one process whose exports
\* are all readable.
SpecViews == InitViews /\ [][NextViews]_vars

\* The dashboard started on a Decisions export, the other exports missing.
SpecDecisions == InitDecisions /\ [][Next]_vars

\* The dashboard started on the three People exports, the Decisions export
\* missing.
SpecPeople == InitPeople /\ [][Next]_vars

\* ------------------------------------------------------------------ claims

\* The last run showed the People table that load_and_preprocess_people
\* returned from the three exports.
PeopleLoaded ==
    /\ view.category = "People"
    /\ view.exc = "none"
    /\ ~view.notice

\* The last run showed the pair that load_and_preprocess_decisions returned
\* from the export.
DecisionsLoaded ==
    /\ view.category = "Decisions"
    /\ view.exc = "none"
    /\ ~view.notice

Range(f) == { f[i] : i \in DOMAIN f }

\* C1: the joined table has exactly as many rows as the Membership
\* collection, also when a person id or an organization id occurs twice.
C1_RowCountPreserved ==
    PeopleLoaded => Len(view.table) = Len(membershipFile.data)

\* C2: every returned agenda item has a non-empty status, and the status is
\* "No result" when the result is absent, null, empty or only whitespace.
C2_StatusNeverEmpty ==
    DecisionsLoaded =>
        \A i \in 1..Len(view.table) :
            LET row == view.table[i]
                blank == \/ row.result.k \in {"none", "nan"}
                         \/ \A n \in 1..Len(row.result.v) :
                                SubSeq(row.result.v, n, n) \in {" ", "\t", "\n"}
            IN /\ row.status # ""
               /\ blank => row.status = "No result"

\* C3: no actionable item has status "No result" or "Kenntnis genommen";
\* every item of the full view with another status is in the actionable view
\* exactly once, in the same relative order; an item with a null result is
\* not in the actionable view.
C3_ActionableView ==
    DecisionsLoaded =>
        LET all == view.table
            act == view.actionable
        IN /\ \A i \in 1..Len(act) :
                  act[i].status \notin {"No result", "Kenntnis genommen"}
           /\ \A j \in 1..Len(all) :
                  all[j].status \notin {"No result", "Kenntnis genommen"}
                  => Cardinality({ i \in 1..Len(act) : act[i] = all[j] }) = 1
           /\ \A i \in 1..Len(act) : act[i] \in Range(all)
           /\ \A i, k \in 1..Len(act) : i < k => act[i].idx < act[k].idx
           /\ \A j \in 1..Len(all) :
                  all[j].result = None
                  => \A i \in 1..Len(act) : act[i].idx # all[j].idx

\* A full view with a null result, and an actionable view that is not empty.
C3_Witness ==
    /\ DecisionsLoaded
    /\ \E j \in 1..Len(view.table) : view.table[j].result = None
    /\ Len(view.actionable) > 0

\* The names of the records of a collection that have the id.
NamesOf(id, data) == { data[i].name : i \in { n \in 1..Len(data) : data[n].id = id } }

\* C4: a membership whose person id matches no Person keeps its row, with
\* Name "Unknown" (and Organization "Unknown" when the organization id
\* matches no Organization); a row whose key resolves carries the name of a
\* matched record: the person's name, and the organization's name as line 103
\* displays it ("Unknown" when the matched record's name is null).
C4_UnresolvedIsUnknown ==
    PeopleLoaded =>
        /\ \A m \in 1..Len(membershipFile.data) :
               \E i \in 1..Len(view.table) : view.table[i].m = m
        /\ \A i \in 1..Len(view.table) :
               LET row == view.table[i]
                   rec == membershipFile.data[row.m]
                   persons == NamesOf(rec.person, peopleFile.data)
                   orgs == NamesOf(rec.organization, orgFile.data)
               IN /\ persons = {} => row.Name = "Unknown"
                  /\ persons # {} =>
                        \E n \in persons :
                            row.Name = IF n.k = "str" THEN n.v ELSE "Unknown"
                  /\ orgs = {} => row.Organization = "Unknown"
                  /\ orgs # {} =>
                        \E n \in orgs :
                            row.Organization =
                              IF n.k = "str" THEN clean_organization(n.v)
                              ELSE "Unknown"

\* A table with a row for an unknown person and a row for a known person in a
\* known organization.
C4_Witness ==
    /\ PeopleLoaded
    /\ \E i, j \in 1..Len(view.table) :
          /\ membershipFile.data[view.table[i].m].person = "p9"
          /\ view.table[i].Name = "Unknown"
          /\ view.table[j].Name = "Alice"
          /\ view.table[j].Organization = "Gruenen"

\* The display name the specification describes: one leading prefix removed.
StartsWith(s, prefix) ==
    Len(s) >= Len(prefix) /\ SubSeq(s, 1, Len(prefix)) = prefix
PrefixRemoved(s) ==
    IF StartsWith(s, "Fraktion der ")
    THEN SubSeq(s, Len("Fraktion der ") + 1, Len(s))
    ELSE IF StartsWith(s, "Fraktionsgemeinschaft ")
    THEN SubSeq(s, Len("Fraktionsgemeinschaft ") + 1, Len(s))
    ELSE s

\* C5: the Organization of a joined row is the organization's name with a
\* leading "Fraktion der " or "Fraktionsgemeinschaft " removed, and unchanged
\* when the name begins with neither, also when one occurs inside the name.
C5_OnlyLeadingPrefixRemoved ==
    PeopleLoaded =>
        \A i \in 1..Len(view.table) :
            LET rec == membershipFile.data[view.table[i].m]
                orgs == NamesOf(rec.organization, orgFile.data)
            IN orgs # {} =>
                 \E n \in orgs : view.table[i].Organization = PrefixRemoved(n.v)

\* The last run of the Decisions view got as far as its filters.
DecisionsFiltered ==
    /\ view.category = "Decisions"
    /\ "multiselect" \in view.rendered

\* The last run of the People view got as far as its filter.
PeopleFiltered ==
    /\ view.category = "People"
    /\ "multiselect" \in view.rendered

\* C6: for a selected range [start, end] and a selected status set, the
\* Decisions filter yields exactly the actionable items with
\* start <= created date <= end whose status is selected, in their order
\* (with start = end: the items of that one day).
C6_DateAndStatusFilter ==
    (DecisionsFiltered /\ Len(view.date_range) = 2) =>
        LET start == view.date_range[1]
            end == view.date_range[2]
            wanted(row) == /\ start <= row.created \div 24
                           /\ row.created \div 24 <= end
                           /\ row.status \in view.selected
        IN view.filtered_df = SelectSeq(view.actionable, wanted)

\* One day is selected; an actionable item of that day is shown, created at
\* an hour other than midnight, and an actionable item of another day is not.
C6_Witness ==
    /\ DecisionsFiltered
    /\ Len(view.date_range) = 2
    /\ view.date_range[1] = view.date_range[2]
    /\ \E i \in 1..Len(view.filtered_df) :
          view.filtered_df[i].created % 24 # 0
    /\ \E j \in 1..Len(view.actionable) :
          /\ view.actionable[j].created \div 24 # view.date_range[1]
          /\ view.actionable[j].status \in view.selected

\* C7: with nothing selected, the status filter and the organization filter
\* return no rows, whatever rows they are given.
C7_EmptySelectionIsEmpty ==
    ((DecisionsFiltered \/ PeopleFiltered) /\ view.selected = {})
        => view.filtered_df = <<>>

\* Nothing is selected although the filtered collection has rows.
C7_Witness ==
    /\ DecisionsFiltered
    /\ view.selected = {}
    /\ Len(view.filter_input) > 0
    /\ view.filtered_df = <<>>

\* C8: with every value present in the column selected (the default of the
\* two multiselects), the category filter returns its input, row for row.
C8_AllSelectedIsIdentity ==
    ((DecisionsFiltered \/ PeopleFiltered)
       /\ view.selected = { IF view.category = "People"
                            THEN view.filter_input[i].Organization
                            ELSE view.filter_input[i].status :
                            i \in 1..Len(view.filter_input) })
        => view.filtered_df = view.filter_input

\* The default selection on a People table with two organizations.
C8_Witness ==
    /\ PeopleFiltered
    /\ Cardinality(view.selected) >= 2
    /\ view.selected = view.options
    /\ view.filtered_df = view.filter_input

\* A source file that exists and cannot be used: no JSON, no "data" key, or
\* a column that no record has.
MalformedDecisions ==
    \/ decisionsFile.kind \in {"invalid_json", "no_data_key"}
    \/ /\ decisionsFile.kind = "ok"
       /\ Len(decisionsFile.data) > 0
       /\ \/ \A i \in 1..Len(decisionsFile.data) :
                 decisionsFile.data[i].created.k = "nan"
          \/ \A i \in 1..Len(decisionsFile.data) :
                 decisionsFile.data[i].result.k = "nan"

MalformedPeople ==
    \/ \E f \in {peopleFile, orgFile, membershipFile} :
           f.kind \in {"invalid_json", "no_data_key"}
    \/ /\ membershipFile.kind = "ok"
       /\ Len(membershipFile.data) > 0
       /\ \A i \in 1..Len(membershipFile.data) :
              membershipFile.data[i].role.k = "nan"

\* C9: a load from a malformed source file ends in a recoverable failure that
\* hands an empty table to the view; no error aborts the run.
C9_MalformedIsRecoverable ==
    /\ (view.category = "Decisions" /\ MalformedDecisions)
         => (view.exc = "none" /\ view.table = <<>>)
    /\ (view.category = "People" /\ MalformedPeople)
         => (view.exc = "none" /\ view.table = <<>>)

\* C10: with a required source file missing, the load shows a notice and
\* returns empty tables, and the view renders no filter, KPI or chart and
\* raises no error.
C10_MissingIsNoticed ==
    LET notfound == /\ view.exc = "none"
                    /\ view.notice
                    /\ view.table = <<>>
                    /\ view.actionable = <<>>
                    /\ view.rendered \subseteq {"subheader"}
    IN /\ (view.category = "Decisions" /\ decisionsFile.kind = "missing")
            => notfound
       /\ (view.category = "People"
             /\ \E f \in {peopleFile, orgFile, membershipFile} :
                    f.kind = "missing")
            => notfound

\* Two records of a collection have the same id.
RepeatedId(data) ==
    \E i, j \in 1..Len(data) : i # j /\ data[i].id = data[j].id

\* C11: each membership is matched to at most one Person and at most one
\* Organization; with two Person records or two Organization records of the
\* same id, load_and_preprocess_people fails and returns no joined table.
C11_RepeatedIdFails ==
    PeopleLoaded =>
        /\ ~RepeatedId(peopleFile.data)
        /\ ~RepeatedId(orgFile.data)

\* C12: in one process each cached loader reads its files at most once.  Once
\* a call has returned (also with the empty not-found result), the body never
\* runs again, the stored result is never replaced, and every later run of
\* the view shows that result, whatever has become of the files.
C12_LoadedOnce ==
    [][ /\ ~calls'.decisions.reread
        /\ ~calls'.people.reread
        /\ calls'.decisions.returned => cacheDecisions'.hit
        /\ calls'.people.returned => cachePeople'.hit
        /\ calls.decisions.returned => cacheDecisions' = cacheDecisions
        /\ calls.people.returned => cachePeople' = cachePeople
        /\ (calls.decisions.returned /\ view' # view
              /\ view'.category = "Decisions")
             => /\ view'.exc = "none"
                /\ view'.notice = cacheDecisions.value.notice
                /\ view'.table = cacheDecisions.value.df
                /\ view'.actionable = cacheDecisions.value.df_filtered
        /\ (calls.people.returned /\ view' # view
              /\ view'.category = "People")
             => /\ view'.exc = "none"
                /\ view'.notice = cachePeople.value.notice
                /\ view'.table = cachePeople.value.df ]_vars

\* The not-found result is shown although the export is on disk again, and
\* the People table is shown although an export has since been removed.
C12_Witness ==
    \/ /\ view.category = "Decisions"
       /\ view.notice
       /\ decisionsFile.kind = "ok"
    \/ /\ view.category = "People"
       /\ Len(view.table) > 0
       /\ peopleFile.kind = "missing"

\* C13: a filter selection that leaves no rows renders the view over the
\* empty result without an error (of the five views named, the Decisions,
\* People and Budgets views are modelled).
C13_EmptySelectionRenders ==
    (view.category \in {"Decisions", "People", "Budgets"}
       /\ "multiselect" \in view.rendered
       /\ view.filtered_df = <<>>)
        => view.exc = "none"

====
